---- MODULE Spec2Model ----
(***************************************************************************)
(* Upstream session broker of lavka-attendance: the totp_sessions table    *)
(* (pending second-factor challenges), the cookies table, the broker       *)
(* operations of backend/attendance.py and the 2FA notification limiter.   *)
(* Every database statement is one atomic step; a handler may be           *)
(* interleaved with other handlers between two statements (each statement  *)
(* is awaited on its own pooled connection, outside any transaction).      *)
(* Time is counted in minutes.                                             *)
(***************************************************************************)
EXTENDS Integers, Sequences, FiniteSets, TLC

\* ------------------------------------------------------------------ bounds
MaxOps == 3      \* handler invocations started in one behaviour
MaxRacing == 2   \* handler invocations started in a behaviour of interleaved handlers
MaxTicks == 1    \* clock advances in one behaviour
MaxTargets == 4  \* length of the selectedUsers list of a marking session
MaxWaves == 2    \* process_marking_session tasks started for the session
MaxChecks == 5   \* check_rate_limit calls started in one behaviour
MaxConnects == 4 \* db.connect() calls made in one behaviour
max_requests == 2  \* check_rate_limit(max_requests=...), the limit of the modelled path

\* ------------------------------------------------------- program constants
ExpiresMinutes == 5          \* create_totp_session(expires_minutes=5)
NotifyWindowMinutes == 1440  \* can_send_2fa_notification: 24 * 60 * 60 seconds
batch_size == 3              \* process_marking_session: batch_size = 3

\* ------------------------------------------------------------ value spaces
Users == {100}                     \* tg_userid
Procs == {"h1", "h2"}              \* concurrently running handler tasks
SessionCookieVals == {"sA", "sB"}  \* cookie jars of a finished SSO exchange
\* OTP pages Upstream serves: the continuation cookie jar and the form action
\* URL of a page come together and both differ from page to page.
OtpPages == {[cookies |-> "kA", otp_action_url |-> "uA"],
             [cookies |-> "kB", otp_action_url |-> "uB"]}
CredVals == {"c1", "c2"}           \* Keycloak credential ids
None == "None"                     \* Python None / SQL NULL of a text column
NULL == -1                         \* SQL NULL of a timestamp column
Absent == "absent"                 \* no row for the user in table users
TickSteps == {ExpiresMinutes, NotifyWindowMinutes}

\* Operations a handler can run, with the caller that reaches them.
\*   self_approve / _send_approve     : interactive single-user marking
\*   self_approve / mark_single_user  : worker of a mass-marking session
\*   get_us_info / _check_user        : identity probe (notify_on_2fa is left
\*                                      at its default by every caller)
\*   add_data_for_login / _create_user_part_1_new : interactive login
\*   complete_2fa_login / _submit_otp_code : the code the user submits
\* get_user_points, _get_user_schedule and get_lesson_attendance_info follow
\* self_approve step for step, without the notification.
BrokerOps ==
    { [name |-> "self_approve", caller |-> "_send_approve", notify_on_2fa |-> FALSE],
      [name |-> "self_approve", caller |-> "mark_single_user", notify_on_2fa |-> FALSE],
      [name |-> "get_us_info", caller |-> "_check_user", notify_on_2fa |-> FALSE],
      [name |-> "add_data_for_login", caller |-> "_create_user_part_1_new", notify_on_2fa |-> FALSE] }
SubmitOp == [name |-> "complete_2fa_login", caller |-> "_submit_otp_code", notify_on_2fa |-> FALSE]
NoOp == [name |-> "none", caller |-> "none", notify_on_2fa |-> FALSE]

\* Callers that are interactive client-app flows (the user is on screen).
InteractiveCallers == {"_send_approve", "_check_user", "_create_user_part_1_new", "_submit_otp_code"}

VARIABLES
    now,                  \* NOW() / datetime.now()
    ticks,                \* clock advances so far
    started,              \* handler invocations so far
    totp_sessions,        \* table totp_sessions, in insertion order
    cookies,              \* table cookies: tg_userid -> cookies
    totp_secret,          \* users.totp_secret is not NULL
    users,                \* table users: tg_userid -> login ("l0" stored before,
                          \* "l1" submitted at registration), or Absent without a row
    totp_credential_id,   \* users.totp_credential_id
    last_message_at,      \* per chat: when the latest 2FA notification was delivered
    pc,                   \* position of each handler task
    op,                   \* operation each handler task runs
    tgID,                 \* user the operation is for
    cookies_result,       \* local: result of get_cookies / submit_otp_code
    auto_result,          \* local: cookies returned by try_auto_2fa, or None
    totp_session,         \* local: row loaded by get_totp_session
    old_notification,     \* local of create_totp_session
    outcome,              \* what the operation returned or raised
    error,                \* text of the exception the operation raised, in parts
    calls,                \* requests the operation has sent to Upstream
    selectedUsers,        \* MassApproveData.selectedUsers of start_mass_marking
    marking_session,      \* marking_sessions[session_id], one session
    wave,                 \* the process_marking_session tasks of the session
    approve_calls,        \* per target: mark_single_user tasks created
    success_messages,     \* per target: marking notifications sent
    response,             \* HTTP status of the latest marking request, 0 before any
    webhook,              \* the photo update telegram_webhook handled last, and its reply
    rate_limit,           \* Redis key rate_limit:{identifier}: its value and whether it has a TTL
    current,              \* local of check_rate_limit: the value GET returned, per request task
    admitted,             \* requests admitted since the key last expired
    checks,               \* check_rate_limit calls so far
    pool,                 \* DBModel.pool: None, an open pool, or a closed one
    _active_connections,  \* DBModel._active_connections
    holder,               \* per task using db: where it is between connect and disconnect
    connects              \* db.connect() calls so far

brokerVars == <<now, ticks, started, totp_sessions, cookies, totp_secret, users,
                totp_credential_id, last_message_at, pc, op, tgID, cookies_result,
                auto_result, totp_session, old_notification, outcome, error,
                calls>>

markVars == <<selectedUsers, marking_session, wave, approve_calls, success_messages,
              response>>

limitVars == <<rate_limit, current, admitted, checks>>

poolVars == <<pool, _active_connections, holder, connects>>

sideVars == <<webhook, limitVars, poolVars>>

vars == <<brokerVars, markVars, sideVars>>

storeVars == <<totp_sessions, cookies, totp_secret, users, totp_credential_id>>

\* Mass marking: target ids, callers (verify_init_data), request URLs, and what
\* a mark_single_user task ends with: the response text of self_approve or an
\* exception.
TargetIds == {1, 2}
Callers == {100, 200}
Urls == {"a?token=t1", "a?token=t2", "a"}
Responses == {"", "G", "G | D"}
Exceptions == {"TwoFactorRequiredError", "Exception"}
Waves == 1..MaxWaves

\* ---------------------------------------------------------------- helpers
Max(S) == CHOOSE x \in S : \A y \in S : y <= x

Range(s) == {s[i] : i \in DOMAIN s}

NoResult == [kind |-> "none", cookies |-> None, otp_action_url |-> None,
             credential_id |-> None]
NoCalls == [sso |-> 0, resource |-> 0, otp |-> 0]
NoSession == [tg_userid |-> 0, session_cookies |-> None, otp_action_url |-> None,
              credential_id |-> None, source |-> None, created_at |-> NULL,
              expires_at |-> NULL, last_notification_sent |-> NULL]

\* Results Upstream can give to a login POST or an OTP POST.
TwoFactorResults ==
    { [kind |-> "TwoFactorRequired", cookies |-> g.cookies,
       otp_action_url |-> g.otp_action_url, credential_id |-> c] :
         g \in OtpPages, c \in CredVals }
SuccessResults ==
    { [kind |-> "cookies", cookies |-> s, otp_action_url |-> None,
       credential_id |-> None] : s \in SessionCookieVals }

NoMarkingSession ==
    [owner_id |-> 0, token |-> None, status |-> "none", total |-> 0,
     processed |-> 0, successful |-> 0, failed |-> 0, results |-> <<>>,
     user_results |-> <<>>, remaining |-> <<>>, completed |-> FALSE,
     error |-> None, discipline |-> "", group |-> ""]

NoWave == [pc |-> "idle", remaining_users |-> <<>>, token |-> None, i |-> 0, k |-> 0]

\* Rate limiter: the request tasks of one identifier that can be inside
\* check_rate_limit together; a missing Redis key; a task outside the check.
Requests == {"r1", "r2"}
NoKey == [count |-> 0, ttl |-> FALSE]
Idle == -1

\* Tasks that use the shared db object (the lifespan, request handlers,
\* process_marking_session tasks).
Tasks == {"t1", "t2", "t3"}

NoPhoto == [kind |-> "none", entries |-> <<>>]
NoWebhook == [chat_id |-> 0, photo |-> NoPhoto, reply |-> "none", secret |-> None]

\* ------------------------------------------------- table totp_sessions (SQL)
\* WHERE tg_userid = $1 AND expires_at > NOW()
IsActive(r, u, t) == r.tg_userid = u /\ r.expires_at > t

ActiveSessions(tbl, u, t) == {r \in Range(tbl) : IsActive(r, u, t)}

\* ... ORDER BY created_at DESC LIMIT 1: the rows the query may return (rows
\* created at the same instant are returned in an order SQL leaves open).
LatestActive(tbl, u, t) ==
    {r \in ActiveSessions(tbl, u, t) :
        \A r2 \in ActiveSessions(tbl, u, t) : r2.created_at <= r.created_at}

\* Variant of get_totp_session without the expires_at filter.
AnySession(tbl, u, t) == {r \in Range(tbl) : r.tg_userid = u}

\* get_totp_session: the row returned, if any.
get_totp_session(tbl, u, t) == LatestActive(tbl, u, t)

\* has_active(user): get_totp_session(user) returns a row.
has_active(tbl, u, t) == get_totp_session(tbl, u, t) # {}

\* Variant of statement 1 that carries no notification time over.
ForgetNotification(tbl, u) == NULL

\* create_totp_session, statement 1: SELECT last_notification_sent ... WHERE
\* tg_userid = $1 AND last_notification_sent IS NOT NULL ORDER BY ... DESC LIMIT 1
SelectOldNotification(tbl, u) ==
    LET S == {r.last_notification_sent :
                r \in {x \in Range(tbl) : x.tg_userid = u /\ x.last_notification_sent # NULL}}
    IN  IF S = {} THEN NULL ELSE Max(S)

\* Variant of the DELETE that removes nothing.
KeepUserSessions(tbl, u) == tbl

\* create_totp_session, statement 2 (and delete_totp_session):
\* DELETE FROM totp_sessions WHERE tg_userid = $1
DeleteUserSessions(tbl, u) ==
    LET NotOf(r) == r.tg_userid # u IN SelectSeq(tbl, NotOf)

\* create_totp_session, statement 3: INSERT ... expires_at = NOW() + 1 minute * $7,
\* last_notification_sent = $8; created_at defaults to CURRENT_TIMESTAMP.
NewSession(u, res, src, old, t) ==
    [tg_userid |-> u, session_cookies |-> res.cookies,
     otp_action_url |-> res.otp_action_url, credential_id |-> res.credential_id,
     source |-> src, created_at |-> t, expires_at |-> t + ExpiresMinutes,
     last_notification_sent |-> old]

\* Variant of statement 3 that stores nothing.
InsertNothing(tbl, u, res, src, old, t) == tbl

InsertSession(tbl, u, res, src, old, t) == Append(tbl, NewSession(u, res, src, old, t))

\* update_totp_session: UPDATE ... SET session_cookies, otp_action_url,
\* credential_id WHERE tg_userid = $1 AND expires_at > NOW()
update_totp_session(tbl, u, t, session_cookies, otp_action_url, credential_id) ==
    [i \in DOMAIN tbl |->
        IF IsActive(tbl[i], u, t)
        THEN [tbl[i] EXCEPT !.session_cookies = session_cookies,
                            !.otp_action_url = otp_action_url,
                            !.credential_id = credential_id]
        ELSE tbl[i]]

\* init_tables (and cleanup_expired_totp_sessions):
\* DELETE FROM totp_sessions WHERE expires_at < NOW()
cleanup_expired_totp_sessions(tbl, t) ==
    LET NotExpired(r) == ~(r.expires_at < t) IN SelectSeq(tbl, NotExpired)

\* can_send_2fa_notification, decided on the row the SELECT returned (or none).
CanSendFor(rows, t) ==
    \/ rows = {}
    \/ \E r \in rows : \/ r.last_notification_sent = NULL
                       \/ t - r.last_notification_sent > NotifyWindowMinutes

CannotSendFor(rows, t) ==
    \E r \in rows : /\ r.last_notification_sent # NULL
                    /\ ~(t - r.last_notification_sent > NotifyWindowMinutes)

\* mark_2fa_notification_sent: UPDATE ... SET last_notification_sent = NOW()
\* WHERE tg_userid = $1 AND expires_at > NOW()
mark_2fa_notification_sent(tbl, u, t) ==
    [i \in DOMAIN tbl |->
        IF IsActive(tbl[i], u, t)
        THEN [tbl[i] EXCEPT !.last_notification_sent = t]
        ELSE tbl[i]]

\* ------------------------------------------------------------------- Init
Init ==
    /\ now = 0
    /\ ticks = 0
    /\ started = 0
    /\ totp_sessions = <<>>
    /\ cookies \in [Users -> {None} \cup SessionCookieVals]
    /\ totp_secret \in [Users -> BOOLEAN]
    /\ users \in [Users -> {Absent, "l0"}]
    /\ \A u \in Users : (cookies[u] # None \/ totp_secret[u]) => users[u] # Absent
    /\ totp_credential_id = [u \in Users |-> None]
    /\ last_message_at = [u \in Users |-> NULL]
    /\ pc = [p \in Procs |-> "idle"]
    /\ op = [p \in Procs |-> NoOp]
    /\ tgID = [p \in Procs |-> 0]
    /\ cookies_result = [p \in Procs |-> NoResult]
    /\ auto_result = [p \in Procs |-> None]
    /\ totp_session = [p \in Procs |-> NoSession]
    /\ old_notification = [p \in Procs |-> NULL]
    /\ outcome = [p \in Procs |-> "none"]
    /\ error = [p \in Procs |-> <<>>]
    /\ calls = [p \in Procs |-> NoCalls]
    /\ selectedUsers = <<>>
    /\ marking_session = NoMarkingSession
    /\ wave = [w \in Waves |-> NoWave]
    /\ approve_calls = [t \in TargetIds |-> 0]
    /\ success_messages = [t \in TargetIds |-> 0]
    /\ response = 0
    /\ webhook = NoWebhook
    /\ rate_limit = NoKey
    /\ current = [c \in Requests |-> Idle]
    /\ admitted = 0
    /\ checks = 0
    /\ pool = "none"
    /\ _active_connections = 0
    /\ holder = [t \in Tasks |-> "out"]
    /\ connects = 0

\* ---------------------------------------------------- broker operation steps
\* A step is one database statement together with the Upstream requests the
\* handler makes before its next database statement (Upstream requests touch
\* no shared state, so nothing another handler does can come between them and
\* be noticed). A local that no later step of the handler reads is dropped.

\* Whether the operation calls send_2fa_notification after persisting a challenge:
\* self_approve always does (attendance.py:415), get_us_info only when
\* notify_on_2fa (attendance.py:329), the other operations never.
Notifies(o) ==
    \/ o.name = "self_approve"
    \/ o.name = "get_us_info" /\ o.notify_on_2fa

\* source passed to _handle_2fa_result
SourceOf(o) == IF o.name = "add_data_for_login" THEN "login" ELSE "refresh"

\* Answers Upstream can give to the resource call made with cached cookies c
\* ("skipped": there are no cached cookies, or the operation is a login).
CachedAnswers(o, c) ==
    IF o.name = "add_data_for_login" \/ c = None
    THEN {"skipped"}
    ELSE {"ok", "401", "empty", "timeout"}

\* Where the operation goes after the cached-cookie call answered r. The
\* Upstream clients raise on an empty message (get_me_info.py:176, 208-213;
\* self_approve_attendance.py:215-216), so every answer but "ok" reaches the
\* operation as an exception: self_approve continues to a fresh login only
\* when its text holds "401" and re-raises any other; get_us_info continues
\* on any exception.
AfterCachedCall(o, r) ==
    IF r = "skipped" THEN "login"
    ELSE IF r = "ok" THEN "return"
    ELSE IF o.name = "get_us_info" THEN "login"
    ELSE IF r = "401" THEN "login"
    ELSE "raise"

\* "Неправильный логин или пароль", the text for rejected credentials.
WrongLogin == "wrong login or password"

\* Text of the exception of an Upstream client for answer r.
Detail(r) ==
    CASE r = "401" -> "401"
      [] r = "empty" -> "empty message"
      [] OTHER -> "timeout"

\* Texts of the exceptions get_cookies raises: rejected credentials
\* (get_cookies.py:394) or a transport failure.
LoginErrors == {WrongLogin, "timeout"}

\* The text the operation raises for an exception with text e: each operation
\* wraps it in its own f-string (attendance.py:346, 351, 431, 508).
Wrapped(o, e) ==
    CASE o.name = "self_approve" -> <<WrongLogin>> \o e
      [] o.name = "get_us_info" -> <<"get_us_info error">> \o e
      [] OTHER -> <<"add_data_for_login error">> \o e

\* The exception of the call repeated after the login, as the operation's
\* inner handler leaves it: get_us_info wraps it once more (346),
\* add_data_for_login replaces it by the rejected-credentials text (486-489).
AfterLoginError(o, r) ==
    CASE o.name = "get_us_info" -> <<"cookies update error", Detail(r)>>
      [] o.name = "add_data_for_login" -> <<WrongLogin>>
      [] OTHER -> <<Detail(r)>>

\* The exception of get_cookies as the inner handler leaves it.
LoginError(o, e) ==
    IF o.name = "get_us_info" THEN <<"cookies update error", e>> ELSE <<e>>

\* Variant of the calls after a login that repeats a failed call once more.
CallsAfterLoginLoop(o, r) == IF r = "ok" THEN 1 ELSE 2

\* Resource calls the operation makes after a fresh login: the repeated call;
\* add_data_for_login makes its probe and, when that succeeded, get_group.
CallsAfterLogin(o, r) ==
    IF o.name = "add_data_for_login" /\ r = "ok" THEN 2 ELSE 1

\* Whether the operation, about to log in afresh, stops because a challenge is
\* already pending for the user. No operation of attendance.py reads
\* totp_sessions before get_cookies (self_approve: lines 382-392).
ShortCircuits(tbl, u, t) == FALSE

\* Whether the caller lets the operation start for user u: the registration
\* goes on only without a row in users (_create_user_part_1_new:97-99); every
\* other caller works for a registered user.
Admits(o, u) ==
    IF o.name = "add_data_for_login" THEN users[u] = Absent ELSE users[u] # Absent

\* Answers of get_cookies: cookies, a TwoFactorRequired page, or an exception.
LoginAnswers == SuccessResults \cup TwoFactorResults \cup {NoResult}

\* Answers of try_auto_2fa: None without a stored secret and when the single
\* generated code is rejected, else the cookies Upstream returned.
AutoAnswers(secret) == IF secret THEN SessionCookieVals \cup {None} ELSE {None}

\* Variant of try_auto_2fa that posts a second code after a rejected one.
AutoPostsTwice(secret) == IF secret THEN 2 ELSE 0

\* OTP posts try_auto_2fa makes.
AutoPosts(secret) == IF secret THEN 1 ELSE 0

Finish(p, how) ==
    /\ pc' = [pc EXCEPT ![p] = "done"]
    /\ outcome' = [outcome EXCEPT ![p] = how]
    /\ UNCHANGED error

\* The operation raises an exception with text msg.
Raise(p, msg) ==
    /\ pc' = [pc EXCEPT ![p] = "done"]
    /\ outcome' = [outcome EXCEPT ![p] = "Error"]
    /\ error' = [error EXCEPT ![p] = msg]

Goto(p, where) ==
    /\ pc' = [pc EXCEPT ![p] = where]
    /\ UNCHANGED <<outcome, error>>

\* Handler entry of a broker operation: get_cookie, the call with the cached
\* cookies, and on a dead session get_cookies and try_auto_2fa.
BeginBrokerWith(p, o, u, r) ==
    /\ UNCHANGED <<markVars, sideVars>>
    /\ pc[p] = "idle"
    /\ Admits(o, u)
    /\ r \in CachedAnswers(o, cookies[u])
    /\ started' = started + 1
    /\ op' = [op EXCEPT ![p] = o]
    /\ tgID' = [tgID EXCEPT ![p] = u]
    /\ LET after == AfterCachedCall(o, r)
                  n == IF r = "skipped" THEN 0 ELSE 1
              IN
              IF after = "return" \/ after = "raise"
              THEN /\ IF after = "return" THEN Finish(p, "Ok")
                      ELSE Raise(p, Wrapped(o, <<Detail(r)>>))
                   /\ calls' = [calls EXCEPT ![p] = [sso |-> 0, resource |-> n, otp |-> 0]]
                   /\ UNCHANGED <<cookies_result, auto_result>>
              ELSE IF ShortCircuits(totp_sessions, u, now)
              THEN /\ Finish(p, "ChallengeRequired")
                   /\ calls' = [calls EXCEPT ![p] = [sso |-> 0, resource |-> n, otp |-> 0]]
                   /\ UNCHANGED <<cookies_result, auto_result>>
              ELSE \E res \in LoginAnswers :
                     IF res.kind = "none"
                     THEN /\ \E e \in LoginErrors : Raise(p, Wrapped(o, LoginError(o, e)))
                          /\ calls' = [calls EXCEPT ![p] =
                                         [sso |-> 1, resource |-> n, otp |-> 0]]
                          /\ UNCHANGED <<cookies_result, auto_result>>
                     ELSE IF res.kind = "cookies"
                     THEN /\ cookies_result' = [cookies_result EXCEPT ![p] = res]
                          /\ UNCHANGED auto_result
                          /\ calls' = [calls EXCEPT ![p] =
                                         [sso |-> 1, resource |-> n, otp |-> 0]]
                          /\ Goto(p, "create_cookie")
                     ELSE \E auto \in AutoAnswers(totp_secret[u]) :
                            /\ cookies_result' = [cookies_result EXCEPT ![p] = res]
                            /\ auto_result' = [auto_result EXCEPT ![p] = auto]
                            /\ calls' = [calls EXCEPT ![p] =
                                           [sso |-> 1, resource |-> n,
                                            otp |-> AutoPosts(totp_secret[u])]]
                            /\ Goto(p, IF auto # None THEN "create_cookie"
                                       ELSE IF o.name = "add_data_for_login"
                                       THEN "create_user"
                                       ELSE "put_select")
    /\ UNCHANGED <<now, ticks, storeVars, last_message_at, totp_session,
                   old_notification>>

BeginBroker(p, limit) ==
    /\ started < limit
    /\ \E o \in BrokerOps, u \in Users :
         \E r \in CachedAnswers(o, cookies[u]) : BeginBrokerWith(p, o, u, r)

\* Variant that keeps the cookies of the answer of get_cookies.
LoginCookies(p) == cookies_result[p].cookies

\* The cookies the operation holds after a login that ended without a challenge.
FreshCookies(p) ==
    IF auto_result[p] # None THEN auto_result[p] ELSE cookies_result[p].cookies

\* What the resource call repeated after the login leads to. The clients
\* raise on an empty message, so the blank-identity branches of get_us_info
\* (attendance.py:323, 341-342) are never taken: the operation returns on
\* "ok" and raises on every other answer.
AfterRetry(o, auto, r) == IF r = "ok" THEN "return" ELSE "raise"

\* create_user_simple: a plain INSERT INTO users, which raises on a row with
\* the same tg_userid (primary key); else the row holds the submitted login.
UserExists == "user exists"

\* Variant of create_user_simple that stores the row without the login.
InsertUserWithoutLogin(tbl, u) == [tbl EXCEPT ![u] = None]

InsertUser(tbl, u) == [tbl EXCEPT ![u] = "l1"]

\* db.create_cookie with the fresh cookies, then the resource call repeated
\* once. add_data_for_login makes its probe first and stores the user row and
\* the cookies only when the probe succeeded (attendance.py:482-502).
CreateCookieWith(p, r) ==
    /\ UNCHANGED <<markVars, sideVars>>
    /\ pc[p] = "create_cookie"
    /\ LET after == AfterRetry(op[p], auto_result[p], r) IN
           /\ calls' = [calls EXCEPT ![p].resource = @ + CallsAfterLogin(op[p], r)]
           /\ IF op[p].name = "add_data_for_login"
              THEN IF after # "return"
                   THEN /\ UNCHANGED <<cookies, users>>
                        /\ Raise(p, Wrapped(op[p], AfterLoginError(op[p], r)))
                   ELSE IF users[tgID[p]] # Absent
                   THEN /\ UNCHANGED <<cookies, users>>
                        /\ Raise(p, Wrapped(op[p], <<UserExists>>))
                   ELSE /\ users' = InsertUser(users, tgID[p])
                        /\ cookies' = [cookies EXCEPT ![tgID[p]] = FreshCookies(p)]
                        /\ Finish(p, "Ok")
              ELSE /\ cookies' = [cookies EXCEPT ![tgID[p]] = FreshCookies(p)]
                   /\ UNCHANGED users
                   /\ IF after = "return" THEN Finish(p, "Ok")
                      ELSE Raise(p, Wrapped(op[p], AfterLoginError(op[p], r)))
    /\ cookies_result' = [cookies_result EXCEPT ![p] = NoResult]
    /\ auto_result' = [auto_result EXCEPT ![p] = None]
    /\ UNCHANGED <<now, ticks, started, totp_sessions, totp_secret,
                   totp_credential_id, last_message_at, op, tgID,
                   totp_session, old_notification>>

CreateCookie(p) == \E r \in {"ok", "empty", "fail"} : CreateCookieWith(p, r)

\* add_data_for_login on a challenge that auto-2FA did not pass:
\* db.create_user_simple with the submitted login and password, before
\* _handle_2fa_result.
CreateUserSimple(p) ==
    /\ UNCHANGED <<markVars, sideVars>>
    /\ pc[p] = "create_user"
    /\ IF users[tgID[p]] # Absent
       THEN /\ Raise(p, Wrapped(op[p], <<UserExists>>))
            /\ cookies_result' = [cookies_result EXCEPT ![p] = NoResult]
            /\ UNCHANGED users
       ELSE /\ users' = InsertUser(users, tgID[p])
            /\ Goto(p, "put_select")
            /\ UNCHANGED cookies_result
    /\ UNCHANGED <<now, ticks, started, totp_sessions, cookies, totp_secret,
                   totp_credential_id, last_message_at, op, tgID, auto_result,
                   totp_session, old_notification, calls>>

\* _handle_2fa_result -> create_totp_session, statement 1.
PutSelect(p) ==
    /\ UNCHANGED <<markVars, sideVars>>
    /\ pc[p] = "put_select"
    /\ old_notification' =
         [old_notification EXCEPT ![p] = SelectOldNotification(totp_sessions, tgID[p])]
    /\ Goto(p, "put_delete")
    /\ UNCHANGED <<now, ticks, started, storeVars, last_message_at, op, tgID,
                   cookies_result, auto_result, totp_session, calls>>

\* create_totp_session, statement 2.
PutDelete(p) ==
    /\ UNCHANGED <<markVars, sideVars>>
    /\ pc[p] = "put_delete"
    /\ totp_sessions' = DeleteUserSessions(totp_sessions, tgID[p])
    /\ Goto(p, "put_insert")
    /\ UNCHANGED <<now, ticks, started, cookies, totp_secret, users, totp_credential_id,
                   last_message_at, op, tgID, cookies_result, auto_result,
                   totp_session, old_notification, calls>>

\* create_totp_session, statement 3; then the operation either notifies or
\* raises TwoFactorRequiredError.
PutInsert(p) ==
    /\ UNCHANGED <<markVars, sideVars>>
    /\ pc[p] = "put_insert"
    /\ totp_sessions' = InsertSession(totp_sessions, tgID[p], cookies_result[p],
                                      SourceOf(op[p]), old_notification[p], now)
    /\ IF Notifies(op[p])
       THEN Goto(p, "can_send")
       ELSE Finish(p, "ChallengeRequired")
    /\ cookies_result' = [cookies_result EXCEPT ![p] = NoResult]
    /\ UNCHANGED <<now, ticks, started, cookies, totp_secret, users, totp_credential_id,
                   last_message_at, op, tgID, auto_result, totp_session,
                   old_notification, calls>>

\* What sendMessage of the Bot API can come to: the message is delivered
\* ({"ok": true}), the API refuses it ({"ok": false}, e.g. the user blocked the
\* bot), or the request raises. send_telegram_message returns the decoded body
\* of every response without looking at it.
TelegramAnswers == {"ok", "not ok", "raise"}

\* send_2fa_notification: can_send_2fa_notification, and when it allows,
\* send_telegram_message. When that returns, mark_2fa_notification_sent
\* follows; when it raises, the function returns False.
Send2faNotificationWith(p, answer) ==
    /\ UNCHANGED <<markVars, sideVars>>
    /\ pc[p] = "can_send"
    /\ LET rows == LatestActive(totp_sessions, tgID[p], now) IN
         IF CannotSendFor(rows, now)
         THEN /\ UNCHANGED last_message_at
              /\ Finish(p, "ChallengeRequired")
         ELSE IF answer = "raise"
         THEN /\ UNCHANGED last_message_at
              /\ Finish(p, "ChallengeRequired")
         ELSE /\ last_message_at' = IF answer = "ok"
                                    THEN [last_message_at EXCEPT ![tgID[p]] = now]
                                    ELSE last_message_at
              /\ Goto(p, "mark_sent")
    /\ UNCHANGED <<now, ticks, started, storeVars, op, tgID, cookies_result,
                   auto_result, totp_session, old_notification, calls>>

Send2faNotification(p) == \E answer \in TelegramAnswers : Send2faNotificationWith(p, answer)

\* send_2fa_notification: mark_2fa_notification_sent, then the raise.
MarkSent(p) ==
    /\ UNCHANGED <<markVars, sideVars>>
    /\ pc[p] = "mark_sent"
    /\ totp_sessions' = mark_2fa_notification_sent(totp_sessions, tgID[p], now)
    /\ Finish(p, "ChallengeRequired")
    /\ UNCHANGED <<now, ticks, started, cookies, totp_secret, users, totp_credential_id,
                   last_message_at, op, tgID, cookies_result, auto_result,
                   totp_session, old_notification, calls>>

\* ------------------------------------------------ complete_2fa_login steps
\* Answers of submit_otp_code: cookies, a TwoFactorRequired page (wrong code),
\* or an exception.
OtpAnswers == SuccessResults \cup TwoFactorResults \cup {NoResult}

\* Handler entry: get_totp_session (no row: the exception of line 198), then
\* submit_otp_code with the stored continuation state.
BeginSubmit(p, limit) ==
    /\ UNCHANGED <<markVars, sideVars>>
    /\ pc[p] = "idle"
    /\ started < limit
    /\ started' = started + 1
    /\ \E u \in Users :
         /\ op' = [op EXCEPT ![p] = SubmitOp]
         /\ tgID' = [tgID EXCEPT ![p] = u]
         /\ LET rows == get_totp_session(totp_sessions, u, now) IN
              \/ /\ rows = {}
                 /\ UNCHANGED <<totp_session, cookies_result>>
                 /\ calls' = [calls EXCEPT ![p] = NoCalls]
                 /\ Finish(p, "NoActiveChallenge")
              \/ \E r \in rows, res \in OtpAnswers :
                   /\ totp_session' = [totp_session EXCEPT ![p] = r]
                   /\ calls' = [calls EXCEPT ![p] = [sso |-> 0, resource |-> 0, otp |-> 1]]
                   /\ IF res.kind = "none"
                      THEN /\ UNCHANGED cookies_result
                           /\ Raise(p, <<"timeout">>)
                      ELSE /\ cookies_result' = [cookies_result EXCEPT ![p] = res]
                           /\ Goto(p, IF res.kind = "cookies"
                                      THEN "submit_create_cookie"
                                      ELSE "update_session")
    /\ UNCHANGED <<now, ticks, storeVars, last_message_at, auto_result,
                   old_notification>>

\* Variant that writes back the credential id Upstream re-emitted.
ReemittedCredential(loaded, result) == result.credential_id

\* The credential id complete_2fa_login writes back after a wrong code.
KeptCredential(loaded, result) == loaded.credential_id

\* Wrong code: update_totp_session, then the TwoFactorRequired result is returned.
UpdateSession(p) ==
    /\ UNCHANGED <<markVars, sideVars>>
    /\ pc[p] = "update_session"
    /\ totp_sessions' =
         update_totp_session(totp_sessions, tgID[p], now, cookies_result[p].cookies,
                             cookies_result[p].otp_action_url,
                             KeptCredential(totp_session[p], cookies_result[p]))
    /\ Finish(p, "WrongCode")
    /\ UNCHANGED <<now, ticks, started, cookies, totp_secret, users, totp_credential_id,
                   last_message_at, op, tgID, cookies_result, auto_result,
                   totp_session, old_notification, calls>>

\* Success: create_cookie.
SubmitCreateCookie(p) ==
    /\ UNCHANGED <<markVars, sideVars>>
    /\ pc[p] = "submit_create_cookie"
    /\ cookies' = [cookies EXCEPT ![tgID[p]] = cookies_result[p].cookies]
    /\ Goto(p, "save_credential")
    /\ UNCHANGED <<now, ticks, started, totp_sessions, totp_secret, users,
                   totp_credential_id, last_message_at, op, tgID, cookies_result,
                   auto_result, totp_session, old_notification, calls>>

\* Success: has_totp_secret, and set_totp_credential_id when there is one.
SaveCredential(p) ==
    /\ UNCHANGED <<markVars, sideVars>>
    /\ pc[p] = "save_credential"
    /\ totp_credential_id' =
         IF totp_secret[tgID[p]]
         THEN [totp_credential_id EXCEPT ![tgID[p]] = totp_session[p].credential_id]
         ELSE totp_credential_id
    /\ Goto(p, "delete_session")
    /\ UNCHANGED <<now, ticks, started, totp_sessions, cookies, totp_secret, users,
                   last_message_at, op, tgID, cookies_result, auto_result,
                   totp_session, old_notification, calls>>

\* Success: delete_totp_session; for a login-sourced session get_group follows
\* (its failure is swallowed); then the handler returns.
DeleteSession(p) ==
    /\ UNCHANGED <<markVars, sideVars>>
    /\ pc[p] = "delete_session"
    /\ totp_sessions' = DeleteUserSessions(totp_sessions, tgID[p])
    /\ calls' = [calls EXCEPT ![p].resource =
                   IF totp_session[p].source = "login" THEN @ + 1 ELSE @]
    /\ Finish(p, "Success")
    /\ UNCHANGED <<now, ticks, started, cookies, totp_secret, users, totp_credential_id,
                   last_message_at, op, tgID, cookies_result, auto_result,
                   totp_session, old_notification>>

\* The handler has returned to its caller; its locals are gone.
Return(p) ==
    /\ UNCHANGED <<markVars, sideVars>>
    /\ pc[p] = "done"
    /\ pc' = [pc EXCEPT ![p] = "idle"]
    /\ op' = [op EXCEPT ![p] = NoOp]
    /\ tgID' = [tgID EXCEPT ![p] = 0]
    /\ cookies_result' = [cookies_result EXCEPT ![p] = NoResult]
    /\ auto_result' = [auto_result EXCEPT ![p] = None]
    /\ totp_session' = [totp_session EXCEPT ![p] = NoSession]
    /\ old_notification' = [old_notification EXCEPT ![p] = NULL]
    /\ outcome' = [outcome EXCEPT ![p] = "none"]
    /\ error' = [error EXCEPT ![p] = <<>>]
    /\ calls' = [calls EXCEPT ![p] = NoCalls]
    /\ UNCHANGED <<now, ticks, started, storeVars, last_message_at>>

\* ------------------------------------------------------------ environment
AllIdle == \A p \in Procs : pc[p] = "idle"

\* The clock advances. It is read in units no shorter than ExpiresMinutes, and
\* a handler ends within one unit (its Upstream requests time out after at most
\* 15 seconds each), so the clock advances between handlers.
Tick ==
    /\ UNCHANGED <<markVars, sideVars>>
    /\ AllIdle
    /\ ticks < MaxTicks
    /\ \E d \in TickSteps : now' = now + d
    /\ ticks' = ticks + 1
    /\ UNCHANGED <<started, storeVars, last_message_at, pc, op, tgID, cookies_result,
                   auto_result, totp_session, old_notification, outcome, error, calls>>

\* The application starts again while no handler runs: init_tables sweeps the
\* expired rows.
CleanupExpired ==
    /\ UNCHANGED <<markVars, sideVars>>
    /\ AllIdle
    /\ totp_sessions' = cleanup_expired_totp_sessions(totp_sessions, now)
    /\ totp_sessions' # totp_sessions
    /\ UNCHANGED <<now, ticks, started, cookies, totp_secret, users, totp_credential_id,
                   last_message_at, pc, op, tgID, cookies_result, auto_result,
                   totp_session, old_notification, outcome, error, calls>>

\* ------------------------------------------------------------ mass marking
\* _take_token: the text after the first "=" of the part after "?"; a URL
\* without "?" raises (IndexError).
_take_token(url) ==
    CASE url = "a?token=t1" -> "t1"
      [] url = "a?token=t2" -> "t2"
      [] OTHER -> "raise"

\* extract_info: an empty text gives none/none, otherwise the group code and
\* the discipline found in the text.
extract_info(text) ==
    CASE text = "" -> [group |-> "none", strok |-> "none"]
      [] text = "G" -> [group |-> "G", strok |-> "none"]
      [] OTHER -> [group |-> "G", strok |-> "D"]

\* list.remove(x) guarded by `if x in list`: the first occurrence goes.
RemoveFirst(seq, x) ==
    IF \E j \in DOMAIN seq : seq[j] = x
    THEN LET j == CHOOSE j \in DOMAIN seq :
                    seq[j] = x /\ \A h \in 1..(j - 1) : seq[h] # x
         IN  [h \in 1..(Len(seq) - 1) |-> IF h < j THEN seq[h] ELSE seq[h + 1]]
    ELSE seq

\* Variant of the failure bookkeeping that leaves `processed` alone.
RecordFailedUncounted(s, user_id) ==
    [s EXCEPT !.failed = @ + 1,
              !.user_results = Append(@, [tg_id |-> user_id, success |-> FALSE]),
              !.remaining = RemoveFirst(@, user_id)]

\* Variant of the failure bookkeeping that leaves the target in `remaining`.
RecordFailedKept(s, user_id) ==
    [s EXCEPT !.failed = @ + 1,
              !.processed = @ + 1,
              !.user_results = Append(@, [tg_id |-> user_id, success |-> FALSE])]

\* Bookkeeping of a failed target (the none/none branch and the except branch).
RecordFailed(s, user_id) ==
    [s EXCEPT !.failed = @ + 1,
              !.processed = @ + 1,
              !.user_results = Append(@, [tg_id |-> user_id, success |-> FALSE]),
              !.remaining = RemoveFirst(@, user_id)]

\* Bookkeeping of a marked target.
RecordSuccess(s, user_id, processed_result) ==
    [s EXCEPT !.successful = @ + 1,
              !.processed = @ + 1,
              !.results = Append(@, user_id),
              !.user_results = Append(@, [tg_id |-> user_id, success |-> TRUE]),
              !.remaining = RemoveFirst(@, user_id),
              !.group = IF @ = "" /\ processed_result.group # "none"
                        THEN processed_result.group ELSE @,
              !.discipline = IF @ = "" /\ processed_result.strok # "none"
                             THEN processed_result.strok ELSE @]

\* Variant in which the exception of a task is not caught per target.
RecordedUncaught(s, user_id, result) ==
    IF result \in Exceptions
    THEN s
    ELSE IF extract_info(result).group = "none" /\ extract_info(result).strok = "none"
    THEN RecordFailed(s, user_id)
    ELSE RecordSuccess(s, user_id, extract_info(result))

\* Variant in which the exception of a task ends the session with an error.
RecordedFatal(s, user_id, result) ==
    IF result \in Exceptions
    THEN [RecordFailed(s, user_id) EXCEPT !.status = "error", !.error = "error"]
    ELSE IF extract_info(result).group = "none" /\ extract_info(result).strok = "none"
    THEN RecordFailed(s, user_id)
    ELSE RecordSuccess(s, user_id, extract_info(result))

\* The session after the task of user_id was awaited with `result`.
Recorded(s, user_id, result) ==
    IF result \in Exceptions
    THEN RecordFailed(s, user_id)
    ELSE IF extract_info(result).group = "none" /\ extract_info(result).strok = "none"
    THEN RecordFailed(s, user_id)
    ELSE RecordSuccess(s, user_id, extract_info(result))

\* After the last batch: completed when nothing remains.
Closed(s) ==
    IF Len(s.remaining) = 0
    THEN [s EXCEPT !.status = "completed", !.completed = TRUE]
    ELSE [s EXCEPT !.status = "partially_completed"]

\* The except branch of process_marking_session.
Failed(s) == [s EXCEPT !.status = "error", !.error = "error"]

\* successful_ids, as often as each target occurs in it.
SuccessCount(s, t) ==
    Cardinality({j \in DOMAIN s.user_results :
                    s.user_results[j].tg_id = t /\ s.user_results[j].success})

\* Variant of send_marking_notifications that does not look at the discipline.
MessagesAfterAlways(s) ==
    [t \in TargetIds |-> success_messages[t] + SuccessCount(s, t)]

\* send_marking_notifications: nothing without a discipline; else one message
\* to every entry of successful_ids.
MessagesAfter(s) ==
    IF s.discipline = ""
    THEN success_messages
    ELSE [t \in TargetIds |-> success_messages[t] + SuccessCount(s, t)]

\* selectedUsers lists a request can carry (List[int], duplicates allowed).
RECURSIVE SeqsUpTo(_)
SeqsUpTo(n) ==
    IF n = 0 THEN {<<>>}
    ELSE SeqsUpTo(n - 1) \cup
         {Append(q, t) : q \in {x \in SeqsUpTo(n - 1) : Len(x) = n - 1}, t \in TargetIds}

\* Target ids are interchangeable, so a non-empty list starts with the
\* smallest one; so are callers and tokens, so a session is started by caller
\* 100 with token t1 (continue_marking draws from all Callers and Urls).
Selections == {sel \in SeqsUpTo(MaxTargets) : Len(sel) > 0 => sel[1] = 1}
Owners == {100}
StartUrls == {"a?token=t1", "a"}

\* start_mass_marking: the session is created and its first task spawned.
StartMassMarking ==
    /\ marking_session.status = "none"
    /\ \E c \in Owners, url \in StartUrls, sel \in Selections :
         /\ _take_token(url) # "raise"
         /\ selectedUsers' = sel
         /\ marking_session' =
              [NoMarkingSession EXCEPT !.owner_id = c, !.token = _take_token(url),
                                       !.status = "starting", !.total = Len(sel),
                                       !.remaining = sel]
    /\ wave' = [wave EXCEPT ![1].pc = "connect"]
    /\ response' = 200
    /\ UNCHANGED <<brokerVars, sideVars, approve_calls, success_messages>>

\* The next process_marking_session task that can be spawned.
FreeWave == {w \in Waves : wave[w].pc = "idle" /\ \A v \in 1..(w - 1) : wave[v].pc # "idle"}

\* Variant of the owner check of continue_marking that lets everyone pass.
AnyoneIsOwner(s, c) == TRUE

\* session["owner_id"] != tg_user_id raises 403.
IsOwner(s, c) == s.owner_id = c

\* continue_marking by caller c with URL url: 403 for anyone but the owner,
\* 500 for a URL without a token; else token, status and error are set and a
\* task is spawned.
ContinueMarkingBy(c, url) ==
    /\ marking_session.status # "none"
    /\ \E w \in FreeWave :
         IF ~IsOwner(marking_session, c)
         THEN /\ response' = 403
              /\ UNCHANGED <<marking_session, wave>>
         ELSE IF _take_token(url) = "raise"
         THEN /\ response' = 500
              /\ UNCHANGED <<marking_session, wave>>
         ELSE /\ marking_session' =
                   [marking_session EXCEPT !.token = _take_token(url),
                                           !.status = "continuing", !.error = None]
              /\ wave' = [wave EXCEPT ![w].pc = "connect"]
              /\ response' = 200
    /\ UNCHANGED <<brokerVars, sideVars, selectedUsers, approve_calls, success_messages>>

ContinueMarking == \E c \in Callers, url \in Urls : ContinueMarkingBy(c, url)

\* process_marking_session up to its first await inside try: db.connect()
\* returns and status becomes processing, or db.connect() raises and the task
\* ends outside the try block.
Connect(w) ==
    /\ wave[w].pc = "connect"
    /\ \/ /\ marking_session' = [marking_session EXCEPT !.status = "processing"]
          /\ wave' = [wave EXCEPT ![w].pc = "get_fio_bulk"]
       \/ /\ wave' = [wave EXCEPT ![w].pc = "dead"]
          /\ UNCHANGED marking_session
    /\ UNCHANGED <<brokerVars, sideVars, response, selectedUsers, approve_calls, success_messages>>

\* get_fio_bulk returns: remaining and token are copied; with nothing to do
\* the session is closed at once. Or get_fio_bulk raises.
GetFioBulk(w) ==
    /\ wave[w].pc = "get_fio_bulk"
    /\ \/ IF Len(marking_session.remaining) = 0
          THEN /\ marking_session' = Closed(marking_session)
               /\ success_messages' = MessagesAfter(Closed(marking_session))
               /\ wave' = [wave EXCEPT ![w].pc = "done"]
          ELSE /\ wave' = [wave EXCEPT ![w].pc = "get_user_agent",
                                       ![w].remaining_users = marking_session.remaining,
                                       ![w].token = marking_session.token]
               /\ UNCHANGED <<marking_session, success_messages>>
       \/ /\ marking_session' = Failed(marking_session)
          /\ wave' = [wave EXCEPT ![w].pc = "done"]
          /\ UNCHANGED success_messages
    /\ UNCHANGED <<brokerVars, sideVars, response, selectedUsers, approve_calls>>

\* The target the task is at, and the length of its current batch.
CurrentUser(w) == wave[w].remaining_users[wave[w].i + wave[w].k + 1]

BatchLen(w) ==
    IF Len(wave[w].remaining_users) - wave[w].i < batch_size
    THEN Len(wave[w].remaining_users) - wave[w].i
    ELSE batch_size

\* get_user_agent returns and the mark_single_user task of the target is
\* created; or get_user_agent raises.
GetUserAgent(w) ==
    /\ wave[w].pc = "get_user_agent"
    /\ \/ /\ approve_calls' = [approve_calls EXCEPT ![CurrentUser(w)] = @ + 1]
          /\ wave' = IF wave[w].k + 1 = BatchLen(w)
                     THEN [wave EXCEPT ![w].pc = "await_task", ![w].k = 0]
                     ELSE [wave EXCEPT ![w].k = @ + 1]
          /\ UNCHANGED marking_session
       \/ /\ marking_session' = Failed(marking_session)
          /\ wave' = [wave EXCEPT ![w].pc = "done"]
          /\ UNCHANGED approve_calls
    /\ UNCHANGED <<brokerVars, sideVars, response, selectedUsers, success_messages>>

\* `await task` returns or raises `result` and the target is recorded; after
\* the last target of the last batch the session is closed and the
\* notifications go out.
AwaitTaskWith(w, result) ==
    /\ wave[w].pc = "await_task"
    /\ LET s == Recorded(marking_session, CurrentUser(w), result) IN
          IF wave[w].k + 1 < BatchLen(w)
          THEN /\ marking_session' = s
               /\ wave' = [wave EXCEPT ![w].k = @ + 1]
               /\ UNCHANGED success_messages
          ELSE IF wave[w].i + batch_size < Len(wave[w].remaining_users)
          THEN /\ marking_session' = s
               /\ wave' = [wave EXCEPT ![w].pc = "get_user_agent", ![w].k = 0,
                                       ![w].i = @ + batch_size]
               /\ UNCHANGED success_messages
          ELSE /\ marking_session' = Closed(s)
               /\ success_messages' = MessagesAfter(Closed(s))
               /\ wave' = [wave EXCEPT ![w].pc = "done"]
    /\ UNCHANGED <<brokerVars, sideVars, response, selectedUsers, approve_calls>>

AwaitTask(w) == \E result \in Responses \cup Exceptions : AwaitTaskWith(w, result)

\* ------------------------------------------- telegram_webhook: TOTP QR photo
\* What the QR code of a photo decodes to: nothing usable, an otpauth://totp/
\* URI (one entry), or an otpauth-migration:// export with its entries. An
\* entry is the base32 text of its secret ("" when the field is missing) and
\* its issuer ("M": a name the allow-list matches, "G": another name, "": none).
Secrets == {"", "S1", "S2"}
Issuers == {"", "M", "G"}
Entries == [secret : Secrets, issuer : Issuers]
Photos ==
    {NoPhoto}
    \cup {[kind |-> "otpauth", entries |-> <<e>>] : e \in Entries}
    \cup {[kind |-> "migration", entries |-> q] :
             q \in {<<>>} \cup {<<e>> : e \in Entries}
                          \cup {<<e, f>> : e \in Entries, f \in Entries}}

\* is_mirea_totp: the lower-cased issuer holds one of the patterns.
is_mirea_totp(issuer) == issuer = "M"

\* The text parse_totp_qr returns in place of the issuer when an export holds
\* several entries and none is from MIREA.
SeveralKeys == "several keys, none of MIREA"

\* parse_totp_qr: (secret, issuer) of the photo.
parse_totp_qr(photo) ==
    LET q == photo.entries
        mirea == {j \in DOMAIN q : is_mirea_totp(q[j].issuer)}
    IN  CASE photo.kind = "otpauth" -> q[1]
          [] photo.kind = "migration" /\ Len(q) = 0 ->
               [secret |-> None, issuer |-> None]
          [] photo.kind = "migration" /\ mirea # {} ->
               q[CHOOSE j \in mirea : \A h \in mirea : j <= h]
          [] photo.kind = "migration" /\ Len(q) = 1 -> q[1]
          [] photo.kind = "migration" ->
               [secret |-> None, issuer |-> SeveralKeys]
          [] OTHER -> [secret |-> None, issuer |-> None]

\* The photo branch of telegram_webhook for chat chat_id: the reply sent and
\* the secret handed to db.set_totp_secret.
TelegramWebhookWith(chat_id, photo) ==
    /\ LET r == parse_totp_qr(photo)
           reply == IF users[chat_id] = Absent THEN "not registered"
                    ELSE IF r.secret = None \/ r.secret = ""
                    THEN (IF r.issuer = SeveralKeys THEN SeveralKeys ELSE "no key found")
                    ELSE IF ~is_mirea_totp(r.issuer) THEN "key is not from MIREA"
                    ELSE "saved"
       IN  /\ webhook' = [chat_id |-> chat_id, photo |-> photo, reply |-> reply,
                          secret |-> IF reply = "saved" THEN r.secret ELSE None]
           /\ totp_secret' = IF reply = "saved"
                             THEN [totp_secret EXCEPT ![chat_id] = TRUE]
                             ELSE totp_secret
    /\ UNCHANGED <<now, ticks, started, totp_sessions, cookies, users,
                   totp_credential_id, last_message_at, pc, op, tgID, cookies_result,
                   auto_result, totp_session, old_notification, outcome, error, calls>>
    /\ UNCHANGED <<markVars, limitVars, poolVars>>

TelegramWebhook == \E chat_id \in Users, photo \in Photos : TelegramWebhookWith(chat_id, photo)

\* ------------------------------------------------ check_rate_limit (Redis)
\* Redis is connected and answers every command; a key that is missing reads
\* as count 0. One identifier is modelled: keys of different identifiers do
\* not touch each other.
\* await self._client.get(key)
Get(c) ==
    /\ current[c] = Idle
    /\ checks < MaxChecks
    /\ checks' = checks + 1
    /\ current' = [current EXCEPT ![c] = rate_limit.count]
    /\ UNCHANGED <<brokerVars, markVars, webhook, poolVars, rate_limit, admitted>>

\* SET key "1" EX window_seconds
SetOne(key) == [count |-> 1, ttl |-> TRUE]

\* INCR key: a missing key is created with value 1 and no TTL; the TTL of an
\* existing key stays.
Incr(key) == [count |-> key.count + 1, ttl |-> key.ttl]

\* Whether the request is admitted on the value GET returned.
IsAllowed(count) == ~(count >= max_requests)

\* The rest of check_rate_limit after GET returned: SET for a missing key,
\* nothing when the limit is reached, INCR otherwise.
Decide(c) ==
    /\ current[c] # Idle
    /\ rate_limit' = IF current[c] = 0 THEN SetOne(rate_limit)
                     ELSE IF IsAllowed(current[c]) THEN Incr(rate_limit)
                     ELSE rate_limit
    /\ admitted' = IF IsAllowed(current[c]) THEN admitted + 1 ELSE admitted
    /\ current' = [current EXCEPT ![c] = Idle]
    /\ UNCHANGED <<brokerVars, markVars, webhook, poolVars, checks>>

\* window_seconds after the SET the key expires; a key without TTL stays.
Expire ==
    /\ rate_limit.count > 0
    /\ rate_limit.ttl
    /\ rate_limit' = NoKey
    /\ admitted' = 0
    /\ UNCHANGED <<brokerVars, markVars, webhook, poolVars, current, checks>>

\* ------------------------------------------------ DBModel.connect/disconnect
\* Both methods run under self._lock, so each is one step.
\* Whether self.pool is None or closed.
NoPool == pool \in {"none", "closed"}

\* connect: creates the pool when there is none, then counts the caller. When
\* asyncpg.create_pool raises, nothing is counted; a caller that connects
\* inside try/finally (the lifespan and the request handlers, e.g.
\* telegram_webhook) still runs its disconnect, a caller that connects before
\* its try (process_marking_session) ends there.
connect(t) ==
    /\ holder[t] = "out"
    /\ connects < MaxConnects
    /\ connects' = connects + 1
    /\ \/ /\ pool' = "open"
          /\ _active_connections' = _active_connections + 1
          /\ holder' = [holder EXCEPT ![t] = "connected"]
       \/ /\ NoPool
          /\ \E next \in {"finally", "out"} : holder' = [holder EXCEPT ![t] = next]
          /\ UNCHANGED <<pool, _active_connections>>
    /\ UNCHANGED <<brokerVars, markVars, webhook, limitVars>>

\* disconnect: the counter after the call.
Released(n) == IF n > 0 THEN n - 1 ELSE n

\* disconnect: counts the caller out and closes the pool at zero.
disconnect(t) ==
    /\ holder[t] \in {"connected", "finally"}
    /\ holder' = [holder EXCEPT ![t] = "out"]
    /\ _active_connections' = Released(_active_connections)
    /\ pool' = IF Released(_active_connections) = 0 /\ pool = "open"
               THEN "closed" ELSE pool
    /\ UNCHANGED connects
    /\ UNCHANGED <<brokerVars, markVars, webhook, limitVars>>

\* ------------------------------------------------------------ specifications
\* The steps of handler task p, which starts an operation only while fewer than
\* limit have been started.
Step(p, limit) ==
    \/ BeginBroker(p, limit) \/ CreateCookie(p) \/ CreateUserSimple(p)
    \/ PutSelect(p) \/ PutDelete(p) \/ PutInsert(p)
    \/ Send2faNotification(p) \/ MarkSent(p)
    \/ BeginSubmit(p, limit) \/ UpdateSession(p) \/ SubmitCreateCookie(p)
    \/ SaveCredential(p) \/ DeleteSession(p) \/ Return(p)

\* Handlers interleave at every await.
Next ==
    \/ Tick
    \/ CleanupExpired
    \/ \E p \in Procs : Step(p, MaxRacing)

Spec == Init /\ [][Next]_vars

\* One handler at a time: each handler runs from entry to return with no other
\* handler in between (the clock still advances).
NextSeq ==
    \/ Tick
    \/ CleanupExpired
    \/ Step("h1", MaxOps)

SpecSeq == Init /\ [][NextSeq]_vars

\* One marking session: its requests and its process_marking_session tasks,
\* interleaved at every await.
NextMark ==
    \/ StartMassMarking
    \/ ContinueMarking
    \/ \E w \in Waves :
          \/ Connect(w) \/ GetFioBulk(w) \/ GetUserAgent(w) \/ AwaitTask(w)

InitMark ==
    /\ Init
    /\ cookies = [u \in Users |-> None]
    /\ totp_secret = [u \in Users |-> FALSE]
    /\ users = [u \in Users |-> "l0"]

SpecMark == InitMark /\ [][NextMark]_vars

\* The bot receives photo updates, one at a time.
NextTotp == TelegramWebhook

SpecTotp == Init /\ [][NextTotp]_vars

\* The requests of one identifier pass the rate limiter, interleaved at every
\* await, while the key's TTL runs.
NextLimit ==
    \/ Expire
    \/ \E c \in Requests : Get(c) \/ Decide(c)

SpecLimit == Init /\ [][NextLimit]_vars

\* The tasks that share db connect and disconnect in any order.
NextPool == \E t \in Tasks : connect(t) \/ disconnect(t)

SpecPool == Init /\ [][NextPool]_vars

\* ----------------------------------------------------------------- properties
\* Positions of the rows of user u in the table, and of the non-expired ones.
RowsOf(u) == {i \in DOMAIN totp_sessions : totp_sessions[i].tg_userid = u}

LiveRowsOf(u) == {i \in RowsOf(u) : totp_sessions[i].expires_at > now}

\* The latest notification time stored in the rows of user u, NULL if none.
StoredNotification(u) ==
    LET S == {totp_sessions[i].last_notification_sent : i \in RowsOf(u)} \ {NULL}
    IN  IF S = {} THEN NULL ELSE CHOOSE x \in S : \A y \in S : y <= x

\* Handler p has returned or raised `how` to its caller.
Raised(p, how) == pc[p] = "done" /\ outcome[p] = how

\* The step in which send_telegram_message delivers the notification of p.
Delivers(p) == Send2faNotificationWith(p, "ok") /\ pc'[p] = "mark_sent"

\* C1: at every moment the store holds at most one non-expired totp_sessions
\* row per user, also when two broker calls for the user run SSO into a
\* challenge at the same time.
C1_AtMostOneLiveRow ==
    \A u \in Users : Cardinality(LiveRowsOf(u)) <= 1

\* C2: a broker operation entered while the user has a non-expired pending
\* challenge sends no SSO login request to Upstream: it ends in that step,
\* answered by the cached session or with ChallengeRequired.
C2_NoLoginWhilePending ==
    [][\A p \in Procs :
          (/\ pc[p] = "idle"
           /\ op'[p] \in BrokerOps
           /\ LiveRowsOf(tgID'[p]) # {})
          => /\ calls'[p].sso = 0
             /\ pc'[p] = "done"
             /\ outcome'[p] \in {"Ok", "Error", "ChallengeRequired"}]_vars

\* C3: a challenge notification is delivered to a user only if none was
\* delivered to that user in the 24 hours before.
C3_OneNotificationPerDay ==
    [][\A p \in Procs :
          (Delivers(p) /\ last_message_at[tgID[p]] # NULL)
          => now - last_message_at[tgID[p]] >= NotifyWindowMinutes]_vars

\* C4: a put takes over the latest notification time stored for the user: the
\* value it read is the stored one, and the row it leaves is the user's only
\* row and carries that value (not NULL, not the time of the put).
C4_PutKeepsNotificationTime ==
    \A p \in Procs :
       /\ pc[p] = "put_delete"
            => old_notification[p] = StoredNotification(tgID[p])
       /\ (\/ pc[p] \in {"can_send", "mark_sent"}
           \/ Raised(p, "ChallengeRequired") /\ ~Notifies(op[p]))
            => \E i \in RowsOf(tgID[p]) :
                  /\ RowsOf(tgID[p]) = {i}
                  /\ totp_sessions[i].last_notification_sent = old_notification[p]

C4_Witness ==
    \E p \in Procs, i \in DOMAIN totp_sessions :
       /\ pc[p] = "can_send"
       /\ old_notification[p] # NULL
       /\ old_notification[p] < now
       /\ totp_sessions[i].tg_userid = tgID[p]
       /\ totp_sessions[i].created_at = now
       /\ totp_sessions[i].last_notification_sent = old_notification[p]

\* C5: when two handlers have both put a challenge for the same user, the
\* store holds a single row for that user, whatever the interleaving of the
\* two puts (the row count is the part of the claim stated here; the
\* notification time of "the" row presupposes it).
C5_RacingPutsCollapse ==
    \A p, q \in Procs :
       (/\ p # q
        /\ tgID[p] = tgID[q]
        /\ Raised(p, "ChallengeRequired")
        /\ Raised(q, "ChallengeRequired"))
       => Cardinality(RowsOf(tgID[p])) = 1

\* C6: when a broker operation raises ChallengeRequired, it has sent exactly
\* one SSO login (no retry) and a row for the user, non-expired when written,
\* is in the store.
C6_ChallengePersistedBeforeRaise ==
    \A p \in Procs :
       /\ calls[p].sso <= 1
       /\ Raised(p, "ChallengeRequired")
            => /\ calls[p].sso = 1
               /\ \E i \in RowsOf(tgID[p]) :
                     /\ totp_sessions[i].source = SourceOf(op[p])
                     /\ totp_sessions[i].created_at <= now
                     /\ totp_sessions[i].expires_at > totp_sessions[i].created_at

C6_Witness ==
    \E p \in Procs :
       /\ Raised(p, "ChallengeRequired")
       /\ op[p].name = "self_approve"
       /\ calls[p].sso = 1
       /\ LiveRowsOf(tgID[p]) # {}

\* C7: no operation started by an interactive client-app flow delivers a
\* challenge notification.
C7_InteractiveNeverNotifies ==
    [][\A p \in Procs :
          Delivers(p) => op[p].caller \notin InteractiveCallers]_vars

\* C8: after a wrong code the caller sees WrongCode, and the row of the user
\* carries the cookies and the URL Upstream just returned and the
\* credential_id the loaded row had, whatever credential id Upstream re-emitted.
C8_WrongCodeRotatesKeepsCredential ==
    \A p \in Procs :
       Raised(p, "WrongCode")
       => /\ cookies_result[p].kind = "TwoFactorRequired"
          /\ RowsOf(tgID[p]) # {}
          /\ \A i \in RowsOf(tgID[p]) :
                /\ i \in LiveRowsOf(tgID[p])
                /\ totp_sessions[i].credential_id = totp_session[p].credential_id
                /\ totp_sessions[i].session_cookies = cookies_result[p].cookies
                /\ totp_sessions[i].otp_action_url = cookies_result[p].otp_action_url

C8_Witness ==
    \E p \in Procs, i \in DOMAIN totp_sessions :
       /\ Raised(p, "WrongCode")
       /\ i \in LiveRowsOf(tgID[p])
       /\ cookies_result[p].credential_id # totp_session[p].credential_id
       /\ cookies_result[p].cookies # totp_session[p].session_cookies
       /\ totp_sessions[i].session_cookies = cookies_result[p].cookies
       /\ totp_sessions[i].credential_id = totp_session[p].credential_id

\* C9: submit_code entered while the user has no row, or only expired ones,
\* fails with NoActiveChallenge in that step, sends nothing to Upstream and
\* leaves the store as it was.
C9_NoActiveChallengeIsInert ==
    [][\A p \in Procs :
          (/\ pc[p] = "idle"
           /\ op'[p] = SubmitOp
           /\ LiveRowsOf(tgID'[p]) = {})
          => /\ pc'[p] = "done"
             /\ outcome'[p] = "NoActiveChallenge"
             /\ calls'[p] = NoCalls
             /\ UNCHANGED storeVars]_vars

C9_Witness ==
    \E p \in Procs :
       /\ Raised(p, "NoActiveChallenge")
       /\ calls[p] = NoCalls
       /\ RowsOf(tgID[p]) # {}
       /\ LiveRowsOf(tgID[p]) = {}

\* C10: when submit_code returns Success, the cookies Upstream returned are the
\* user's cached cookies and no row of the user is left: has_active is false.
C10_SuccessCachesAndDeletes ==
    \A p \in Procs :
       Raised(p, "Success")
       => /\ cookies_result[p].kind = "cookies"
          /\ cookies[tgID[p]] = cookies_result[p].cookies
          /\ RowsOf(tgID[p]) = {}
          /\ ~has_active(totp_sessions, tgID[p], now)

C10_Witness ==
    \E p \in Procs :
       /\ Raised(p, "Success")
       /\ totp_session[p].source = "login"
       /\ cookies[tgID[p]] = cookies_result[p].cookies
       /\ ~has_active(totp_sessions, tgID[p], now)

\* C11: for one challenge a broker operation posts at most one generated code;
\* after a rejected one it is on the path that persists the challenge, and
\* when it raises ChallengeRequired for a user with a secret it has posted
\* exactly one code.
C11_AutoSubmitsOneCode ==
    \A p \in Procs :
       op[p] \in BrokerOps
       => /\ calls[p].otp <= 1
          /\ (/\ cookies_result[p].kind = "TwoFactorRequired"
              /\ auto_result[p] = None
              /\ pc[p] # "done")
               => pc[p] \in {"create_user", "put_select", "put_delete", "put_insert"}
          /\ Raised(p, "ChallengeRequired")
               => /\ calls[p].otp = (IF totp_secret[tgID[p]] THEN 1 ELSE 0)
                  /\ RowsOf(tgID[p]) # {}

C11_Witness ==
    \E p \in Procs :
       /\ op[p].name = "self_approve"
       /\ Raised(p, "ChallengeRequired")
       /\ totp_secret[tgID[p]]
       /\ calls[p].otp = 1
       /\ LiveRowsOf(tgID[p]) # {}

\* C12: when a broker operation returns after a successful auto-2FA (it posted
\* a code and was not challenged), a totp_credential_id is stored for the user.
C12_AutoSuccessStoresCredential ==
    \A p \in Procs :
       (/\ op[p] \in BrokerOps
        /\ Raised(p, "Ok")
        /\ calls[p].otp = 1)
       => totp_credential_id[tgID[p]] \in CredVals

RecordedIds == {marking_session.user_results[j].tg_id : j \in DOMAIN marking_session.user_results}

\* The number of result records of target t.
RecordsOf(t) ==
    Cardinality({j \in DOMAIN marking_session.user_results :
                    marking_session.user_results[j].tg_id = t})

\* The targets still listed in remaining.
RemainingIds == {marking_session.remaining[j] : j \in DOMAIN marking_session.remaining}

\* C14: in every reachable state of a marking session, processed equals
\* successful plus failed.
C14_ProcessedIsSuccessfulPlusFailed ==
    marking_session.status # "none"
    => marking_session.processed = marking_session.successful + marking_session.failed

C14_Witness ==
    /\ marking_session.successful >= 1
    /\ marking_session.failed >= 1
    /\ marking_session.processed = marking_session.successful + marking_session.failed
    /\ marking_session.status = "processing"

\* C15: a completed session has total = successful + failed, processed = total
\* and an empty remaining list.
C15_CompletedAccountsForAll ==
    marking_session.status = "completed"
    => /\ marking_session.total = marking_session.successful + marking_session.failed
       /\ marking_session.processed = marking_session.total
       /\ Len(marking_session.remaining) = 0

\* The target ids of the input list.
InputIds == {selectedUsers[j] : j \in DOMAIN selectedUsers}

\* C16: once a task has run to its end (the session is completed or partially
\* completed), every target id of the input list has exactly one result record
\* and is not in remaining.
C16_EveryTargetRecordedOnce ==
    marking_session.status \in {"completed", "partially_completed"}
    => \A t \in InputIds : RecordsOf(t) = 1 /\ t \notin RemainingIds

\* C17: no target id is at the same time in remaining and in the result records.
C17_RemainingAndRecordedDisjoint == RemainingIds \cap RecordedIds = {}

\* What a task can give that is not a mark: an exception (ChallengeRequired or
\* any other), or a text that parses to no group and no discipline.
FailingResults ==
    Exceptions \cup {r \in Responses : /\ extract_info(r).group = "none"
                                       /\ extract_info(r).strok = "none"}

\* C18: when the awaited task of a target raises or gives an unparsable text,
\* the target gets a failed record, the session is not put into error, and the
\* task goes on with the next target (or ends after the last one).
C18_TargetFailureIsRecordedAndContained ==
    [][\A w \in Waves : \A r \in FailingResults :
         AwaitTaskWith(w, r)
         => /\ marking_session'.failed = marking_session.failed + 1
            /\ marking_session'.successful = marking_session.successful
            /\ marking_session'.user_results =
                  Append(marking_session.user_results,
                         [tg_id |-> CurrentUser(w), success |-> FALSE])
            /\ marking_session'.status \in
                  {marking_session.status, "completed", "partially_completed"}
            /\ marking_session'.error = marking_session.error
            /\ \/ /\ wave'[w].pc \in {"await_task", "get_user_agent"}
                  /\ wave'[w].i + wave'[w].k = wave[w].i + wave[w].k + 1
               \/ /\ wave'[w].pc = "done"
                  /\ wave[w].i + wave[w].k + 1 = Len(wave[w].remaining_users)]_vars

\* A first target failed, a later one was still marked, and the session closed.
C18_Witness ==
    /\ marking_session.status = "completed"
    /\ \E j, h \in DOMAIN marking_session.user_results :
          /\ j < h
          /\ ~marking_session.user_results[j].success
          /\ marking_session.user_results[h].success
          /\ marking_session.user_results[j].tg_id # marking_session.user_results[h].tg_id
    /\ marking_session.error = None

\* C19: the status becomes error only in a step in which a store call of a
\* task (get_fio_bulk, get_user_agent) raises; awaiting a target's task never
\* sets it.
C19_ErrorOnlyFromStoreFailure ==
    [][(marking_session'.status = "error" /\ marking_session.status # "error")
         => \E w \in Waves :
               /\ wave[w].pc \in {"get_fio_bulk", "get_user_agent"}
               /\ wave'[w].pc = "done"
               /\ marking_session' = Failed(marking_session)]_vars

\* Targets have failed without an error status, then the store failed.
C19_Witness ==
    /\ marking_session.status = "error"
    /\ marking_session.failed >= 1
    /\ \E w \in Waves : wave[w].pc = "done" /\ wave[w].i = batch_size

\* C20: continue_marking on a completed session with nothing remaining changes
\* nothing: the session record stays as it is, no task is spawned, no broker
\* call is made and no notification is sent.
C20_ContinueOnCompletedIsNoOp ==
    [][(/\ marking_session.status = "completed"
        /\ Len(marking_session.remaining) = 0
        /\ \A w \in Waves : wave[w].pc \in {"idle", "done", "dead"}
        /\ ContinueMarking)
         => UNCHANGED <<marking_session, wave, approve_calls, success_messages>>]_vars

\* C21: a session starts in status starting, and once its status is completed
\* or error no later step changes the status.
C21_CompletedAndErrorAreTerminal ==
    [][/\ marking_session.status = "none"
          => marking_session'.status \in {"none", "starting"}
       /\ marking_session.status \in {"completed", "error"}
          => marking_session'.status = marking_session.status]_vars

\* C22: continue_marking by anyone but the owner is answered 403 and leaves
\* the session (token, status, remaining, counters) as it is and spawns no task.
C22_ContinueOnlyByOwner ==
    [][\A c \in Callers, url \in Urls :
         (marking_session.owner_id # c /\ ContinueMarkingBy(c, url))
         => /\ response' = 403
            /\ UNCHANGED <<marking_session, wave, approve_calls, success_messages>>]_vars

C22_Witness ==
    /\ response = 403
    /\ marking_session.status = "processing"
    /\ marking_session.owner_id \in Callers
    /\ Len(marking_session.remaining) > 0

\* The tasks spawned by continue_marking that have not yet copied remaining
\* and token.
PendingContinued == {w \in Waves : w > 1 /\ wave[w].pc \in {"connect", "get_fio_bulk"}}

\* C23: an accepted continue_marking sets the token to the new one and the
\* status to continuing and spawns one task; that task works on the remaining
\* list and the token as they were when continue_marking was accepted (they do
\* not change before the task copies them).
C23_ContinueSpawnsWaveOverRemaining ==
    [][/\ \A c \in Callers, url \in Urls :
            (/\ marking_session.owner_id = c
             /\ _take_token(url) # "raise"
             /\ ContinueMarkingBy(c, url))
            => /\ marking_session'.token = _take_token(url)
               /\ marking_session'.status = "continuing"
               /\ Cardinality({w \in Waves : wave'[w] # wave[w]}) = 1
               /\ \A w \in Waves : wave'[w] # wave[w] => wave'[w].pc = "connect"
       /\ \A w \in PendingContinued :
            /\ marking_session'.remaining = marking_session.remaining
            /\ marking_session'.token = marking_session.token
            /\ wave'[w].pc = "get_user_agent"
               => /\ wave'[w].remaining_users = marking_session.remaining
                  /\ wave'[w].token = marking_session.token]_vars

\* mark_single_user tasks of task w that were created and not yet awaited.
InFlight(w) ==
    CASE wave[w].pc = "get_user_agent" -> wave[w].k
      [] wave[w].pc = "await_task" -> BatchLen(w) - wave[w].k
      [] OTHER -> 0

\* C24: at most batch_size self_approve calls of the session are in flight,
\* and no task creates calls while calls of an earlier task are in flight.
C24_AtMostThreeInFlight ==
    /\ Cardinality({<<w, j>> \in Waves \X (1..batch_size) : j <= InFlight(w)}) <= batch_size
    /\ \A v, w \in Waves : (v < w /\ InFlight(v) > 0) => InFlight(w) = 0

\* C25: when a task has gone through all its batches, a target gets a success
\* message in that step iff the discipline is known and the target has a
\* successful record; a target with failed records only gets none.
C25_SuccessMessageIffDisciplineKnown ==
    [][\A w \in Waves :
         (/\ wave[w].pc \in {"get_fio_bulk", "await_task"}
          /\ wave'[w].pc = "done"
          /\ marking_session'.status \in {"completed", "partially_completed"})
         => \A t \in TargetIds :
               success_messages'[t] > success_messages[t]
               <=> (/\ marking_session'.discipline # ""
                    /\ SuccessCount(marking_session', t) >= 1)]_vars

C25_Witness ==
    /\ marking_session.status = "completed"
    /\ marking_session.discipline # ""
    /\ \E t, f \in TargetIds :
          /\ SuccessCount(marking_session, t) >= 1
          /\ success_messages[t] >= 1
          /\ RecordsOf(f) >= 1
          /\ SuccessCount(marking_session, f) = 0
          /\ success_messages[f] = 0

\* ---- broker operations: retries and error texts

\* C26: a broker operation logs in at most once and makes at most two
\* resource calls, the second one only after that login.
C26_OneLoginOneRetry ==
    \A p \in Procs :
       op[p] \in BrokerOps
       => /\ calls[p].sso <= 1
          /\ calls[p].resource <= 2
          /\ calls[p].resource = 2 => calls[p].sso = 1

C26_Witness ==
    \E p \in Procs :
       /\ op[p].name = "self_approve"
       /\ Raised(p, "Error")
       /\ calls[p].sso = 1
       /\ calls[p].resource = 2

\* The error kinds of an exception text: rejected credentials when the text
\* holds "Неправильный логин или пароль", else a transient Upstream failure.
CredentialsInvalid(msg) == msg # <<>> /\ WrongLogin \in Range(msg)

UpstreamTransient(msg) == msg # <<>> /\ WrongLogin \notin Range(msg)

\* C27: when the identity probe made right after a fresh login finds no
\* identity, the operation fails and its error says the credentials are wrong.
C27_EmptyIdentityIsCredentialsInvalid ==
    [][\A p \in Procs :
          (/\ op[p].name \in {"get_us_info", "add_data_for_login"}
           /\ CreateCookieWith(p, "empty"))
          => /\ pc'[p] = "done"
             /\ outcome'[p] = "Error"
             /\ CredentialsInvalid(error'[p])]_vars

\* last_notification_sent of the newest live row of u that has one, else NULL.
LiveNotification(u) ==
    LET S == {totp_sessions[i].last_notification_sent :
                i \in {j \in LiveRowsOf(u) : totp_sessions[j].last_notification_sent # NULL}}
    IN  IF S = {} THEN NULL ELSE Max(S)

\* C28: an expired row is invisible: the readers return nothing for a user
\* who has expired rows only, submit_code fails with NoActiveChallenge, put
\* reads nothing from expired rows, and the put is accepted and inserts a row.
C28_ExpiredRowIsInvisible ==
    [][\A p \in Procs :
          /\ (LiveRowsOf(tgID'[p]) = {} /\ tgID'[p] \in Users)
              => /\ ~has_active(totp_sessions, tgID'[p], now)
                 /\ get_totp_session(totp_sessions, tgID'[p], now) = {}
          /\ (pc[p] = "idle" /\ op'[p] = SubmitOp /\ LiveRowsOf(tgID'[p]) = {})
              => (pc'[p] = "done" /\ outcome'[p] = "NoActiveChallenge")
          /\ (pc[p] = "put_select" /\ pc'[p] = "put_delete")
              => old_notification'[p] = LiveNotification(tgID[p])
          /\ (pc[p] = "put_insert" /\ pc'[p] # pc[p])
              => Len(totp_sessions') = Len(totp_sessions) + 1]_vars

\* C29: when the call made with the cached cookies times out, the operation
\* ends with a transient error: it has not logged in and the cached cookies
\* are as they were.
C29_CachedTimeoutIsTransient ==
    [][\A p \in Procs, o \in BrokerOps, u \in Users :
          (cookies[u] # None /\ BeginBrokerWith(p, o, u, "timeout"))
          => /\ pc'[p] = "done"
             /\ outcome'[p] = "Error"
             /\ UpstreamTransient(error'[p])
             /\ calls'[p].sso = 0
             /\ cookies' = cookies]_vars

\* C30: when fresh cookies of a user are stored, no live row of that user is
\* left in totp_sessions.
C30_SuccessLeavesNoLiveRow ==
    [][\A u \in Users :
          (cookies'[u] # cookies[u] /\ cookies'[u] # None)
          => {i \in DOMAIN totp_sessions' :
                /\ totp_sessions'[i].tg_userid = u
                /\ totp_sessions'[i].expires_at > now'} = {}]_vars

\* ------------------------------------------------------- TOTP secret import
\* C31: a photo whose export holds exactly one entry with a secret gets that
\* secret stored for a registered user whatever its issuer, and the wrong-issuer
\* replies are sent only for an export of several entries none of which matches.
C31_SingleEntryIsStored ==
    [][\A u \in Users, photo \in Photos :
          (users[u] # Absent /\ photo.kind = "migration" /\ TelegramWebhookWith(u, photo))
          => /\ (Len(photo.entries) = 1 /\ photo.entries[1].secret # "")
                => (webhook'.secret = photo.entries[1].secret /\ totp_secret'[u])
             /\ webhook'.reply \in {SeveralKeys, "key is not from MIREA"}
                => (Len(photo.entries) > 1
                    /\ \A j \in DOMAIN photo.entries :
                          ~is_mirea_totp(photo.entries[j].issuer))]_vars

\* -------------------------------------------------- notification send failure
\* C32: when the limiter allows the notification and sending it fails (the
\* request raises or the Bot API refuses the message), send_2fa_notification
\* returns False without marking the notification as sent, and the operation
\* still raises ChallengeRequired with the challenge of the user persisted.
C32_SendFailureReturnsFalse ==
    [][\A p \in Procs, answer \in {"not ok", "raise"} :
          (/\ ~CannotSendFor(LatestActive(totp_sessions, tgID[p], now), now)
           /\ Send2faNotificationWith(p, answer))
          => /\ pc'[p] = "done"
             /\ outcome'[p] = "ChallengeRequired"
             /\ \E i \in DOMAIN totp_sessions' :
                   IsActive(totp_sessions'[i], tgID[p], now')]_vars

\* --------------------------------------------- marking sessions, whole life
\* C33: every attempted target leaves `remaining` whatever its outcome, so no
\* process_marking_session task that reaches its end (and no other step) sets
\* the status partially_completed.
C33_NeverPartiallyCompleted == marking_session.status # "partially_completed"

\* A task ran to its end over a session with a failed target.
C33_Witness ==
    /\ marking_session.status = "completed"
    /\ marking_session.failed > 0
    /\ marking_session.successful > 0
    /\ \E w \in Waves : wave[w].pc = "done"

\* How often target t occurs in the input list of the session.
Occurrences(t) == Cardinality({j \in DOMAIN selectedUsers : selectedUsers[j] = t})

\* C35: over the life of a session no target is passed to self_approve more
\* often than it occurs in the input list (once, for a list without
\* duplicates), however tasks and continue requests interleave.
C35_EachTargetApprovedOnce ==
    \A t \in TargetIds : approve_calls[t] <= Occurrences(t)

\* C36: a started session does not stay in starting, processing or continuing:
\* once no process_marking_session task of it is running any more, its status
\* is completed or error.
C36_NoTaskLeftMeansSettled ==
    (/\ marking_session.status # "none"
     /\ \A w \in Waves : wave[w].pc \in {"idle", "done", "dead"})
    => marking_session.status \in {"completed", "error"}

\* C37: no target receives more success notifications in a session than it
\* occurs in the input list (one, for a list without duplicates).
C37_OneSuccessMessagePerTarget ==
    \A t \in TargetIds : success_messages[t] <= Occurrences(t)

C38_AtMostMaxRequestsPerWindow == admitted <= max_requests

\* C39: a rate-limit counter that exists has a TTL, so that it expires
\* window_seconds after it was set, however the checks interleave with the
\* expiry of the key.
C39_EveryCounterExpires == rate_limit.count > 0 => rate_limit.ttl

\* ---------------------------------------------------------- shared store pool
\* Tasks that connected and have not yet disconnected.
Holders == {t \in Tasks : holder[t] = "connected"}

\* C40: while a task that connected has not yet disconnected the pool is open
\* (it is never closed under a holder), and the counter is never negative.
C40_PoolOpenWhileHeld ==
    /\ Holders # {} => pool = "open"
    /\ _active_connections >= 0
====
